---- MODULE Spec2Model ----
(***************************************************************************)
(* A model of grafen's lattice construction (src/lattice.rs) and substrate *)
(* generation (src/substrates.rs).                                         *)
(*                                                                         *)
(* Numbers.  The program computes with f64.  Here every length is an       *)
(* integer count of 1e-4 nm (1.0 is 10000, the graphene bond length 0.142  *)
(* is 1420), and an angle is a whole number of degrees whose sine and      *)
(* cosine are tabulated to five decimals.  All the lengths the program     *)
(* fixes (0.142, 0.450, 0.30, 0.151 and their halves, quarters and sixths) *)
(* are exact in this unit.                                                 *)
(*                                                                         *)
(* Specifications.  Spec is the life of one lattice: a builder is made,    *)
(* sized, finalized, and the lattice translated.  SubstrateSpec is a run   *)
(* of create_substrate calls.                                              *)
(***************************************************************************)
EXTENDS Integers, Sequences, FiniteSets, TLC

VARIABLES
    builder,      \* Option<LatticeBuilder>: the builder under construction
    lattice,      \* Option<Lattice>: the finalized (and translated) lattice
    request,      \* the arguments the builder was last sized with
    call,         \* the last lattice operation and its argument
    translations, \* how many times the lattice has been translated
    substrate,    \* the last create_substrate call: arguments, locals, result
    component,    \* Option<ComponentEntry>: the component at hand
    comp_call,    \* the last ComponentEntry operation and the coordinates before it
    database,     \* the DataBase of the session
    disk,         \* the files on disk: path |-> document
    db_call,      \* the last DataBase operation: argument, Result, value returned
    writes,       \* how many times write_database has been called
    ui_database,  \* the catalog user_menu is given
    system_defs,  \* the list of system definitions user_menu edits
    menu          \* user_menu: where it is, its backup, and what it last did

lattice_vars == <<builder, lattice, request, call, translations>>
component_vars == <<component, comp_call>>
database_vars == <<database, disk, db_call, writes>>
menu_vars == <<ui_database, system_defs, menu>>
vars == <<builder, lattice, request, call, translations, substrate,
          component, comp_call, database, disk, db_call, writes,
          ui_database, system_defs, menu>>

\* what the operations of one source module leave alone
beyond_lattice == <<substrate, component_vars, database_vars, menu_vars>>
beyond_substrate == <<lattice_vars, component_vars, database_vars, menu_vars>>
beyond_component == <<lattice_vars, substrate, database_vars, menu_vars>>
beyond_database == <<lattice_vars, substrate, component_vars, menu_vars>>
beyond_menu == <<lattice_vars, substrate, component_vars, database_vars>>

(***************************************************************************)
(* Bounds of the model.                                                    *)
(***************************************************************************)
\* from_bins is called with nx, ny in 0..MaxBins
MaxBins == 4
\* a finalized lattice is translated at most this many times
MaxTranslations == 2

(***************************************************************************)
(* Option values.                                                          *)
(***************************************************************************)
None == <<>>
Some(v) == <<v>>
IsSome(o) == o # <<>>
Unwrap(o) == o[1]

(***************************************************************************)
(* f64 arithmetic on the fixed-point grid.                                 *)
(***************************************************************************)
Abs(i) == IF i < 0 THEN -i ELSE i

F64RoundTruncating(num, den) ==
    IF num >= 0 THEN num \div den ELSE -((-num) \div den)

\* f64::round of the quotient num/den (den > 0): nearest integer, a tie goes
\* away from zero.
F64Round(num, den) ==
    IF num >= 0 THEN (2*num + den) \div (2*den)
                ELSE -((2*(-num) + den) \div (2*den))

\* `as u64` of a float holding an integer: a negative value saturates to 0.
\* (The upper saturation at 2^64-1 is out of reach of every modelled size.)
AsU64(i) == IF i < 0 THEN 0 ELSE i

CeilToMultipleSkipped(n, k) == n

CeilToMultipleNearest(n, k) == ((2*n + k) \div (2*k)) * k

\* ((n as f64 / k).ceil() * k) as u64, exact for n below 2^53.
CeilToMultiple(n, k) == ((n + k - 1) \div k) * k

\* sin and cos of an angle given in degrees, times TrigScale.
TrigScale == 100 * 1000
SinTable == [g \in {60, 90, 120} |->
                CASE g = 60 -> 86603 [] g = 90 -> 100000 [] g = 120 -> 86603]
CosTable == [g \in {60, 90, 120} |->
                CASE g = 60 -> 50000 [] g = 90 -> 0 [] g = 120 -> -50000]

\* the product len * (t / TrigScale), to the nearest point of the fixed-point grid
TrigMul(len, t) ==
    LET p == len * t
    IN  IF p >= 0 THEN (2*p + TrigScale) \div (2*TrigScale)
                  ELSE -((2*(-p) + TrigScale) \div (2*TrigScale))

(***************************************************************************)
(* Coord                                                                   *)
(***************************************************************************)
Coord_new(x, y, z) == [x |-> x, y |-> y, z |-> z]

Coord_add_dropping_z(self, other) ==
    Coord_new(self.x + other.x, self.y + other.y, self.z)

Coord_add(self, other) ==
    Coord_new(self.x + other.x, self.y + other.y, self.z + other.z)

(***************************************************************************)
(* Crystal                                                                 *)
(***************************************************************************)
Crystal_hexagonal(a) ==
    [a |-> a, b |-> a, gamma |-> 120, lattice_type |-> "Hexagonal"]

Crystal_triclinic(a, b, gamma) ==
    [a |-> a, b |-> b, gamma |-> gamma, lattice_type |-> "Triclinic"]

spacing(self) ==
    [dx |-> self.a,
     dy |-> TrigMul(self.b, SinTable[self.gamma]),
     dx_per_row |-> TrigMul(self.b, CosTable[self.gamma])]

(***************************************************************************)
(* LatticeBuilder                                                          *)
(***************************************************************************)
LatticeBuilder_new(crystal) == [crystal |-> crystal, nx |-> 0, ny |-> 0]

from_bins(self, nx, ny) == [self EXCEPT !.nx = nx, !.ny = ny]

from_size_dividing_by_dx_twice(self, size_x, size_y) ==
    LET s  == spacing(self.crystal)
        nx == AsU64(F64Round(size_x, s.dx))
        ny == AsU64(F64Round(size_y, s.dx))
    IN  from_bins(self, nx, ny)

from_size_rounding_up(self, size_x, size_y) ==
    LET s  == spacing(self.crystal)
        nx == AsU64((size_x + s.dx - 1) \div s.dx)
        ny == AsU64((size_y + s.dy - 1) \div s.dy)
    IN  from_bins(self, nx, ny)

from_size(self, size_x, size_y) ==
    LET s  == spacing(self.crystal)
        nx == AsU64(F64Round(size_x, s.dx))
        ny == AsU64(F64Round(size_y, s.dy))
    IN  from_bins(self, nx, ny)

GridCellsColumnOuter(nx, ny) ==
    [k \in 1..(nx * ny) |-> [row |-> (k - 1) % ny, col |-> (k - 1) \div ny]]

\* (0..ny).flat_map(|row| (0..nx) ...): the grid cells, row outer, column inner
GridCells(nx, ny) ==
    [k \in 1..(nx * ny) |-> [row |-> (k - 1) \div nx, col |-> (k - 1) % nx]]

\* the closure building the Coord of a grid cell
GridCoord(s, cell) ==
    Coord_new(cell.col * s.dx + cell.row * s.dx_per_row, cell.row * s.dy, 0)

MapCoords(s, cells) == [k \in 1..Len(cells) |-> GridCoord(s, cells[k])]

generic(self) ==
    LET s == spacing(self.crystal)
    IN  [self |-> self, coords |-> MapCoords(s, GridCells(self.nx, self.ny))]

HexFilterUnshifted(cell) == (cell.col + 1) % 3 > 0

\* the filter of the hexagonal constructor: every third grid point is removed,
\* shifted by one step in every row
HexFilter(cell) == (cell.col + cell.row + 1) % 3 > 0

hexagonal(self) ==
    LET adj == [self EXCEPT !.nx = CeilToMultiple(self.nx, 3),
                            !.ny = CeilToMultiple(self.ny, 2)]
        s   == spacing(adj.crystal)
    IN  [self |-> adj,
         coords |-> MapCoords(s, SelectSeq(GridCells(adj.nx, adj.ny), HexFilter))]

\* finalize: the lattice, and the builder as the constructor left it
finalize(self) ==
    LET r == IF self.crystal.lattice_type = "Hexagonal"
             THEN hexagonal(self) ELSE generic(self)
        s == spacing(r.self.crystal)
    IN  [self |-> r.self,
         lattice |-> [box_size |-> Coord_new(r.self.nx * s.dx, r.self.ny * s.dy, 0),
                      coords |-> r.coords]]

(***************************************************************************)
(* Lattice                                                                 *)
(***************************************************************************)
Lattice_hexagonal(a) == LatticeBuilder_new(Crystal_hexagonal(a))

Lattice_triclinic(a, b, gamma) == LatticeBuilder_new(Crystal_triclinic(a, b, gamma))

translate(self, t) ==
    [self EXCEPT !.coords = [i \in 1..Len(self.coords) |-> Coord_add(self.coords[i], t)]]

\* Lattice::from_size(&crystal, size_x, size_y), as substrates.rs calls it: the
\* lattice of the crystal sized to the requested footprint
Lattice_from_size(crystal, size_x, size_y) ==
    finalize(from_size(LatticeBuilder_new(crystal), size_x, size_y)).lattice

(***************************************************************************)
(* substrates.rs                                                           *)
(***************************************************************************)
GrapheneBondLength == 1420
SilicaBondLength == 4500
SilicaLatticeZ0 == 3000
SilicaBaseZ0 == 0
SilicaDz == 1510
SilicaGamma == 60

ResidueBase_graphene(bond_length) ==
    [code |-> "GRPH",
     atoms |-> << [code |-> "C",
                   position |-> Coord_new(bond_length \div 2, bond_length \div 2,
                                          bond_length \div 2)] >>]

ResidueBase_silica(bond_length) ==
    LET base_coord == Coord_new(bond_length \div 4, bond_length \div 6, SilicaBaseZ0)
    IN  [code |-> "SIO",
         atoms |-> << [code |-> "O1",
                       position |-> Coord_add(base_coord, Coord_new(0, 0, SilicaDz))],
                      [code |-> "SI", position |-> base_coord],
                      [code |-> "O2",
                       position |-> Coord_add(base_coord, Coord_new(0, 0, -SilicaDz))] >>]

AtomNumberedWithinResidue(residue, residue_number, atom_number, lattice_point) ==
    [residue_name |-> residue.code,
     residue_number |-> residue_number,
     atom_name |-> residue.atoms[atom_number + 1].code,
     atom_number |-> atom_number,
     position |-> Coord_add(lattice_point, residue.atoms[atom_number + 1].position)]

\* the Atom built in the inner loop of gen_atom_list; residue_number and
\* atom_number are the 0-based counters of enumerate()
NewAtom(residue, residue_number, atom_number, lattice_point) ==
    [residue_name |-> residue.code,
     residue_number |-> residue_number,
     atom_name |-> residue.atoms[atom_number + 1].code,
     atom_number |-> Len(residue.atoms) * residue_number + atom_number,
     position |-> Coord_add(lattice_point, residue.atoms[atom_number + 1].position)]

\* the inner loop of gen_atom_list: the atoms pushed for one lattice point
ResidueAtoms(residue, residue_number, lattice_point) ==
    [k \in 1..Len(residue.atoms) |->
        NewAtom(residue, residue_number, k - 1, lattice_point)]

\* the outer loop of gen_atom_list over the lattice points lo..hi (1-based): the
\* pushes of each point follow those of the point before it
RECURSIVE PushedAtoms(_, _, _, _)
PushedAtoms(coords, residue, lo, hi) ==
    IF lo > hi THEN <<>>
    ELSE IF lo = hi THEN ResidueAtoms(residue, lo - 1, coords[lo])
    ELSE LET mid == (lo + hi) \div 2
         IN  PushedAtoms(coords, residue, lo, mid)
                 \o PushedAtoms(coords, residue, mid + 1, hi)

gen_atom_list(coords, residue) == PushedAtoms(coords, residue, 1, Len(coords))

\* create_graphene: the System returned, with the locals it was built from
create_graphene(size_x, size_y) ==
    LET bond_length  == GrapheneBondLength
        z0           == bond_length
        residue_base == ResidueBase_graphene(bond_length)
        crystal      == Crystal_hexagonal(bond_length)
        lat          == translate(Lattice_from_size(crystal, size_x, size_y),
                                  Coord_new(0, 0, z0))
        atoms        == gen_atom_list(lat.coords, residue_base)
    IN  [residue_base |-> residue_base,
         z0 |-> z0,
         lattice |-> lat,
         system |-> [dimensions |-> Coord_add(lat.box_size, Coord_new(0, 0, 2 * z0)),
                     atoms |-> atoms]]

create_silica_single_thickness(size_x, size_y) ==
    LET bond_length  == SilicaBondLength
        z0           == SilicaLatticeZ0
        residue_base == ResidueBase_silica(bond_length)
        crystal      == Crystal_triclinic(bond_length, bond_length, SilicaGamma)
        lat          == translate(Lattice_from_size(crystal, size_x, size_y),
                                  Coord_new(0, 0, z0))
        atoms        == gen_atom_list(lat.coords, residue_base)
    IN  [residue_base |-> residue_base,
         z0 |-> z0,
         lattice |-> lat,
         system |-> [dimensions |-> Coord_add(lat.box_size, Coord_new(0, 0, z0)),
                     atoms |-> atoms]]

\* create_silica: the System returned, with the locals it was built from
create_silica(size_x, size_y) ==
    LET bond_length  == SilicaBondLength
        z0           == SilicaLatticeZ0
        residue_base == ResidueBase_silica(bond_length)
        crystal      == Crystal_triclinic(bond_length, bond_length, SilicaGamma)
        lat          == translate(Lattice_from_size(crystal, size_x, size_y),
                                  Coord_new(0, 0, z0))
        atoms        == gen_atom_list(lat.coords, residue_base)
    IN  [residue_base |-> residue_base,
         z0 |-> z0,
         lattice |-> lat,
         system |-> [dimensions |-> Coord_add(lat.box_size, Coord_new(0, 0, 2 * z0)),
                     atoms |-> atoms]]

SizeError == "input sizes of the system have to be positive"

\* what a create_substrate call leaves behind: its arguments, the Result
\* (status, error, system) and the locals of the material's constructor
SubstrateCall(size_x, size_y, substrate_type, status, error, built) ==
    [status |-> status, error |-> error,
     size_x |-> size_x, size_y |-> size_y, substrate_type |-> substrate_type,
     residue_base |-> IF built = None THEN None ELSE Some(Unwrap(built).residue_base),
     z0 |-> IF built = None THEN None ELSE Some(Unwrap(built).z0),
     lattice |-> IF built = None THEN None ELSE Some(Unwrap(built).lattice),
     system |-> IF built = None THEN None ELSE Some(Unwrap(built).system)]

create_substrate_rejecting_negative_only(size_x, size_y, substrate_type) ==
    IF size_x < 0 \/ size_y < 0
    THEN SubstrateCall(size_x, size_y, substrate_type, "Err", SizeError, None)
    ELSE SubstrateCall(size_x, size_y, substrate_type, "Ok", "",
                       Some(IF substrate_type = "Graphene"
                            THEN create_graphene(size_x, size_y)
                            ELSE create_silica(size_x, size_y)))

create_substrate(size_x, size_y, substrate_type) ==
    IF size_x <= 0 \/ size_y <= 0
    THEN SubstrateCall(size_x, size_y, substrate_type, "Err", SizeError, None)
    ELSE SubstrateCall(size_x, size_y, substrate_type, "Ok", "",
                       Some(IF substrate_type = "Graphene"
                            THEN create_graphene(size_x, size_y)
                            ELSE create_silica(size_x, size_y)))

(***************************************************************************)
(* database.rs: ComponentEntry                                             *)
(*                                                                         *)
(* A concrete component (volume::Cuboid, volume::Cylinder, surface::Sheet, *)
(* surface::Cylinder) is a record of its class, its optional residue, its  *)
(* geometric fields and its coordinates; a ComponentEntry adds the tag of  *)
(* the enum variant that wraps it.                                         *)
(***************************************************************************)
\* the variant ($entry) create_entry_wrapper! gives each class ($class)
EntryOf(class) ==
    CASE class = "volume::Cuboid"    -> "VolumeCuboid"
      [] class = "volume::Cylinder"  -> "VolumeCylinder"
      [] class = "surface::Sheet"    -> "SurfaceSheet"
      [] class = "surface::Cylinder" -> "SurfaceCylinder"

\* impl From<$class> for ComponentEntry
ComponentEntry_from(object) == [entry |-> EntryOf(object.class), object |-> object]

get_coords(self) == self.object.coords

get_residue(self) == self.object.residue

\* the box of a concrete component: a cuboid's size, a sheet's length and
\* width (flat along z), a cylinder's diameter and height
calc_box_size(object) ==
    CASE object.class = "volume::Cuboid" ->
             Coord_new(object.geometry[1], object.geometry[2], object.geometry[3])
      [] object.class = "surface::Sheet" ->
             Coord_new(object.geometry[1], object.geometry[2], 0)
      [] OTHER ->
             Coord_new(2 * object.geometry[1], 2 * object.geometry[1], object.geometry[2])

\* impl Component for ComponentEntry: box_size dispatches to the wrapped object
box_size(self) == calc_box_size(self.object)

\* Coord::with_pbc: every axis folded into [0, box_size) on that axis, an axis
\* whose box_size is 0 left as it is
PbcAxis(v, b) == IF b > 0 THEN v % b ELSE v

Coord_with_pbc(self, box) ==
    Coord_new(PbcAxis(self.x, box.x), PbcAxis(self.y, box.y), PbcAxis(self.z, box.z))

with_pbc_skipping_last_coord(self) ==
    LET box == box_size(self)
        n   == Len(get_coords(self))
    IN  [self EXCEPT !.object.coords =
            [i \in 1..n |-> IF i < n THEN Coord_with_pbc(get_coords(self)[i], box)
                                     ELSE get_coords(self)[i]]]

with_pbc_losing_last_coord(self) ==
    LET box == box_size(self)
        n   == Len(get_coords(self))
    IN  [self EXCEPT !.object.coords =
            [i \in 1..(IF n = 0 THEN 0 ELSE n - 1) |->
                Coord_with_pbc(get_coords(self)[i], box)]]

\* ComponentEntry::with_pbc
with_pbc(self) ==
    LET box == box_size(self)
    IN  [self EXCEPT !.object.coords =
            [i \in 1..Len(get_coords(self)) |-> Coord_with_pbc(get_coords(self)[i], box)]]

(***************************************************************************)
(* database.rs: DataBase                                                   *)
(*                                                                         *)
(* A path is its directory prefix and its file name split at the dots:     *)
(* "/a/file.json" is [dir |-> "/a/", name |-> <<"file", "json">>], "" has  *)
(* the name <<>>, ".hidden" the name <<"", "hidden">>, ".." the name       *)
(* <<"", "", "">>.                                                         *)
(***************************************************************************)
PathBuf_from(dir, name) == [dir |-> dir, name |-> name]

\* Path::file_name is None for an empty last component and for "." and ".."
HasFileName(path) ==
    /\ path.name # <<>>
    /\ path.name # <<"">>
    /\ path.name # <<"", "">>
    /\ path.name # <<"", "", "">>

\* the file name has a dot that is not its first character
HasExtension(path) ==
    /\ HasFileName(path)
    /\ Len(path.name) >= 2
    /\ ~(Len(path.name) = 2 /\ path.name[1] = "")

\* Path::file_stem: the file name up to its last dot, the whole of it when it
\* has no dot or only a leading one
file_stem(path) ==
    IF ~HasFileName(path) THEN None
    ELSE IF HasExtension(path) THEN Some(SubSeq(path.name, 1, Len(path.name) - 1))
    ELSE Some(path.name)

\* Path::extension
extension(path) ==
    IF HasExtension(path) THEN Some(path.name[Len(path.name)]) ELSE None

\* PathBuf::set_extension: nothing without a file stem
set_extension(path, ext) ==
    IF file_stem(path) = None THEN path
    ELSE [path EXCEPT !.name = Append(Unwrap(file_stem(path)), ext)]

DataBase_new == [path |-> None, residue_defs |-> <<>>, component_defs |-> <<>>]

\* the Result of a DataBase method, with the DataBase it leaves
set_path_storing_before_the_check(self, new_path) ==
    LET path == new_path
    IN  IF file_stem(path) # None
        THEN [result |-> "Ok",
              self |-> [self EXCEPT !.path = Some(set_extension(path, "json"))]]
        ELSE [result |-> "BadPath", self |-> [self EXCEPT !.path = Some(path)]]

set_path_keeping_the_extension(self, new_path) ==
    LET path == new_path
    IN  IF file_stem(path) # None
        THEN [result |-> "Ok",
              self |-> [self EXCEPT !.path =
                            Some(IF extension(path) = None
                                 THEN set_extension(path, "json") ELSE path)]]
        ELSE [result |-> "BadPath", self |-> self]

\* DataBase::set_path
set_path(self, new_path) ==
    LET path == new_path
    IN  IF file_stem(path) # None
        THEN [result |-> "Ok",
              self |-> [self EXCEPT !.path = Some(set_extension(path, "json"))]]
        ELSE [result |-> "BadPath", self |-> self]

\* #[derive(Serialize)] of ComponentEntry: the variant's name keys the object
SerializeEntry(e) == [tag |-> e.entry, body |-> e.object]

\* #[derive(Deserialize)] of ComponentEntry
DeserializeEntry(j) == [entry |-> j.tag, object |-> j.body]

to_writer_with_the_path(self) ==
    [valid |-> TRUE,
     path |-> self.path,
     residue_definitions |-> Some(self.residue_defs),
     component_definitions |->
         Some([i \in 1..Len(self.component_defs) |-> SerializeEntry(self.component_defs[i])])]

\* DataBase::to_writer: the document written; #[serde(skip)] leaves the path
\* out, #[serde(rename)] names the two lists
to_writer(self) ==
    [valid |-> TRUE,
     path |-> None,
     residue_definitions |-> Some(self.residue_defs),
     component_definitions |->
         Some([i \in 1..Len(self.component_defs) |-> SerializeEntry(self.component_defs[i])])]

\* DataBase::from_reader: a skipped field takes its Default, an absent list
\* is Vec::new(); a document that does not parse is an error
from_reader(doc) ==
    IF ~doc.valid THEN [result |-> "IoError", value |-> None]
    ELSE [result |-> "Ok",
          value |-> Some(
              [path |-> None,
               residue_defs |-> IF doc.residue_definitions = None THEN <<>>
                                ELSE Unwrap(doc.residue_definitions),
               component_defs |->
                   IF doc.component_definitions = None THEN <<>>
                   ELSE [i \in 1..Len(Unwrap(doc.component_definitions)) |->
                            DeserializeEntry(Unwrap(doc.component_definitions)[i])]])]

read_database_keeping_the_default_path(from_path, files) ==
    IF from_path \notin DOMAIN files THEN [result |-> "IoError", value |-> None]
    ELSE from_reader(files[from_path])

\* read_database: File::open fails for a missing file
read_database(from_path, files) ==
    IF from_path \notin DOMAIN files THEN [result |-> "IoError", value |-> None]
    ELSE LET parsed == from_reader(files[from_path])
         IN  IF parsed.result # "Ok" THEN parsed
             ELSE [result |-> "Ok",
                   value |-> Some([Unwrap(parsed.value) EXCEPT !.path = Some(from_path)])]

\* a file cut short by a failed write: it no longer parses
TruncatedFile ==
    [valid |-> FALSE, path |-> None,
     residue_definitions |-> None, component_definitions |-> None]

WriteFile(files, path, doc) ==
    [q \in DOMAIN files \cup {path} |-> IF q = path THEN doc ELSE files[q]]

write_database_to_a_default_path(db, files, io) ==
    LET path == IF db.path = None THEN PathBuf_from("", <<"database", "json">>)
                ELSE Unwrap(db.path)
    IN  IF io = "create fails" THEN [result |-> "IoError", files |-> files]
        ELSE IF io = "write fails"
        THEN [result |-> "IoError", files |-> WriteFile(files, path, TruncatedFile)]
        ELSE [result |-> "Ok", files |-> WriteFile(files, path, to_writer(db))]

\* write_database; io is what the file system does: File::create may fail,
\* and so may the write into the created file
write_database(db, files, io) ==
    IF db.path # None
    THEN LET path == Unwrap(db.path)
         IN  IF io = "create fails" THEN [result |-> "IoError", files |-> files]
             ELSE IF io = "write fails"
             THEN [result |-> "IoError", files |-> WriteFile(files, path, TruncatedFile)]
             ELSE [result |-> "Ok", files |-> WriteFile(files, path, to_writer(db))]
    ELSE [result |-> "IoError", files |-> files]

(***************************************************************************)
(* bin/ui/define_components.rs                                             *)
(*                                                                         *)
(* What the user types at a prompt is [ok, values]: the numbers parsed     *)
(* from the line, or ok = FALSE when the line cannot be read or parsed.    *)
(***************************************************************************)
Ok(value) == [ok |-> TRUE, value |-> value]
Err == [ok |-> FALSE, value |-> <<>>]

\* utils::parse_string_for_index and Vec::get: an index into the list
IndexInto(input, list) ==
    IF input.ok /\ Len(input.values) >= 1 /\ input.values[1] \in 0..(Len(list) - 1)
    THEN Ok(input.values[1])
    ELSE Err

select_component(db, selection) ==
    LET index == IndexInto(selection, db.component_defs)
    IN  IF index.ok THEN Ok(db.component_defs[index.value + 1]) ELSE Err

select_position(selection) ==
    IF ~selection.ok THEN Err
    ELSE IF selection.values = <<>> THEN Ok(Coord_new(0, 0, 0))
    ELSE IF Len(selection.values) < 3 THEN Err
    ELSE Ok(Coord_new(selection.values[1], selection.values[2], selection.values[3]))

select_size(size) ==
    IF ~size.ok \/ Len(size.values) < 2 THEN Err
    ELSE Ok(<<size.values[1], size.values[2]>>)

get_and_parse_string_single(input) ==
    IF ~input.ok \/ Len(input.values) < 1 THEN Err ELSE Ok(input.values[1])

\* create_definition: a copy of the chosen component with the position and
\* the extent typed in; the first prompt that fails ends it
create_definition(db, typed) ==
    LET definition == select_component(db, typed.selection)
        position   == select_position(typed.position)
        size       == select_size(typed.size)
        radius     == get_and_parse_string_single(typed.radius)
        height     == get_and_parse_string_single(typed.height)
    IN  IF ~definition.ok THEN Err
        ELSE IF definition.value.kind = "Sheet"
        THEN IF ~position.ok \/ ~size.ok THEN Err
             ELSE Ok([definition.value EXCEPT !.position = Some(position.value),
                                              !.size = Some(size.value)])
        ELSE IF ~position.ok \/ ~radius.ok \/ ~height.ok THEN Err
             ELSE Ok([definition.value EXCEPT !.position = Some(position.value),
                                              !.radius = Some(radius.value),
                                              !.height = Some(height.value)])

\* utils::remove_item: the item at the index of the tail is removed
remove_item(list, tail) ==
    LET index == IndexInto(tail, list)
    IN  IF ~index.ok THEN [ok |-> FALSE, list |-> list]
        ELSE [ok |-> TRUE,
              list |-> SubSeq(list, 1, index.value) \o SubSeq(list, index.value + 2, Len(list))]

\* utils::swap_items: the items at the two indices of the tail change places
swap_items(list, tail) ==
    IF tail.ok /\ Len(tail.values) >= 2
       /\ tail.values[1] \in 0..(Len(list) - 1) /\ tail.values[2] \in 0..(Len(list) - 1)
    THEN LET i == tail.values[1] + 1
             j == tail.values[2] + 1
         IN  [ok |-> TRUE, list |-> [list EXCEPT ![i] = list[j], ![j] = list[i]]]
    ELSE [ok |-> FALSE, list |-> list]

QuitWithoutSaving_extending_the_edits(list, backup) == list \o backup

\* Command::QuitWithoutSaving: system_defs.clear() and
\* system_defs.extend_from_slice(&backup)
QuitWithoutSaving(list, backup) == <<>> \o backup

(***************************************************************************)
(* Inputs of the lattice operations.                                       *)
(***************************************************************************)
\* vector lengths: 1.0, 0.5 and the graphene bond length 0.142
HexLengths == {10000, 1420}
TriclinicBases == {<<10000, 10000, 60>>, <<10000, 5000, 90>>}
\* requested sizes: negative, zero, below half a bin, a tie, and the sizes
\* of the repository's tests (0.9, 2.1) and beyond
LatticeSizes == {-5000, 0, 4000, 5000, 9000, 21000, 36000, 40000}
TranslateVectors ==
    {Coord_new(-5000, 5000, 10000), Coord_new(0, 0, 1420), Coord_new(2500, 0, -3000)}

NoRequest == [kind |-> "none", x |-> 0, y |-> 0]
ZeroCoord == Coord_new(0, 0, 0)
Called(op, t) == [op |-> op, t |-> t]

\* requested substrate sizes: negative, zero, 0.05 (below half a bin of either
\* material), 0.225 (half a bin of silica along x) and 0.25 .. 1.25
SubstrateSizes == {-2500, 0, 500, 2250, 2500, 5000, 7500, 10000, 12500}
SubstrateTypes == {"Graphene", "Silica"}

\* a component holds at most this many coordinates
MaxCoords == 2

\* the coordinates of tests::component_entry_adds_with_pbc_method, a point below
\* the box and off the plane, and one several boxes out
PbcPoints ==
    {Coord_new(5000, 0, 0), Coord_new(15000, 0, 0), Coord_new(25000, 0, 0),
     Coord_new(0, 15000, 0), Coord_new(-5000, 0, 7000), Coord_new(45000, -25000, 0)}

RECURSIVE SeqsUpTo(_, _)
SeqsUpTo(S, n) ==
    IF n = 0 THEN {<<>>}
    ELSE LET shorter == SeqsUpTo(S, n - 1)
         IN  shorter \cup {Append(q, e) : q \in shorter, e \in S}

CoordLists == SeqsUpTo(PbcPoints, MaxCoords)

\* the geometric fields of each class: a size, a length and width, a radius and height
Geometries(class) ==
    CASE class = "volume::Cuboid" -> {<<20000, 10000, 5000>>, <<10000, 0, 0>>}
      [] class = "surface::Sheet" -> {<<20000, 10000>>, <<30000, 0>>}
      [] OTHER                    -> {<<10000, 20000>>, <<5000, 0>>}

Classes == {"volume::Cuboid", "volume::Cylinder", "surface::Sheet", "surface::Cylinder"}

ComponentCalled(op, before) == [op |-> op, before |-> before]

\* write_database is called at most this many times
MaxWrites == 1

\* the candidates of set_path: "", "test", "/a/file.json", "file.txt", "..",
\* ".hidden"
CandidatePaths ==
    {PathBuf_from("", <<>>), PathBuf_from("", <<"test">>),
     PathBuf_from("/a/", <<"file", "json">>), PathBuf_from("", <<"file", "txt">>),
     PathBuf_from("", <<"", "", "">>), PathBuf_from("", <<"", "hidden">>)}

\* the paths of a DataBase literal: none, "This/will/be/removed"
LiteralPaths == {None, Some(PathBuf_from("This/will/be/", <<"removed">>))}

\* the locations read_database is given: "/a/file.json", "empty.json",
\* "bad.json", "missing.json", "This/will/be/removed"
ReadPaths ==
    {PathBuf_from("/a/", <<"file", "json">>), PathBuf_from("", <<"empty", "json">>),
     PathBuf_from("", <<"bad", "json">>), PathBuf_from("", <<"missing", "json">>),
     PathBuf_from("This/will/be/", <<"removed">>)}

\* the residue of the tests
TestResidue ==
    [code |-> "RES",
     atoms |-> << [code |-> "A1", position |-> Coord_new(0, 10000, 20000)],
                  [code |-> "A2", position |-> Coord_new(30000, 40000, 50000)] >>]

TestSheet ==
    ComponentEntry_from([class |-> "surface::Sheet", name |-> None, residue |-> None,
                         geometry |-> <<20000, 10000>>,
                         coords |-> <<Coord_new(5000, 0, 0)>>])

TestCuboid ==
    ComponentEntry_from([class |-> "volume::Cuboid", name |-> None,
                         residue |-> Some(TestResidue),
                         geometry |-> <<20000, 10000, 5000>>, coords |-> <<>>])

ResidueLists == {<<>>, <<TestResidue>>}
ComponentLists == {<<>>, <<TestCuboid, TestSheet>>}

\* the files there are before the session: a catalog at "/a/file.json", the
\* document "{}" at "empty.json", a file that is no catalog at "bad.json"
InitialDisk ==
    LET catalog == to_writer([path |-> None, residue_defs |-> <<TestResidue>>,
                              component_defs |-> <<TestCuboid, TestSheet>>])
        empty   == [valid |-> TRUE, path |-> None,
                    residue_definitions |-> None, component_definitions |-> None]
    IN  [q \in {PathBuf_from("/a/", <<"file", "json">>),
                PathBuf_from("", <<"empty", "json">>),
                PathBuf_from("", <<"bad", "json">>)} |->
            IF q.name[1] = "file" THEN catalog
            ELSE IF q.name[1] = "empty" THEN empty ELSE TruncatedFile]

DataBaseCalled(op, arg, result, value) ==
    [op |-> op, arg |-> arg, result |-> result, value |-> value]

\* user_menu holds at most this many system definitions
MaxDefs == 2

\* the catalog's components, as yet without position and extent
MenuSheet ==
    [kind |-> "Sheet", position |-> None, size |-> None, radius |-> None, height |-> None]
MenuCylinder ==
    [kind |-> "Cylinder", position |-> None, size |-> None, radius |-> None, height |-> None]

Typed(values) == [ok |-> TRUE, values |-> values]
Unreadable == [ok |-> FALSE, values |-> <<>>]

\* what is typed at "Select component", "Change position", "Set size",
\* "Set radius" and "Set height"
SelectionsTyped == {Typed(<<0>>), Typed(<<1>>), Typed(<<2>>), Unreadable}
PositionsTyped == {Typed(<<>>), Typed(<<10000, 20000, 30000>>), Typed(<<10000>>)}
SizesTyped == {Typed(<<20000, 10000>>), Typed(<<20000>>)}
SinglesTyped == {Typed(<<5000>>), Unreadable}

\* the tails of the commands "r" and "s"
RemoveTails == {Typed(<<i>>) : i \in 0..MaxDefs} \cup {Unreadable}
SwapTails == {Typed(<<i, j>>) : i \in 0..MaxDefs, j \in 0..MaxDefs} \cup {Typed(<<0>>)}

NoSubstrate == SubstrateCall(0, 0, "none", "none", "", None)

Init ==
    /\ builder = None
    /\ lattice = None
    /\ request = NoRequest
    /\ call = Called("none", ZeroCoord)
    /\ translations = 0
    /\ substrate = NoSubstrate
    /\ component = None
    /\ comp_call = ComponentCalled("none", <<>>)
    /\ database = DataBase_new
    /\ disk = InitialDisk
    /\ db_call = DataBaseCalled("new", None, "Ok", None)
    /\ writes = 0
    /\ ui_database = [component_defs |-> <<MenuSheet, MenuCylinder>>]
    /\ system_defs = <<>>
    /\ menu = [pc |-> "outside", backup |-> <<>>, at_entry |-> <<>>,
               before |-> <<>>, command |-> "none", exit |-> "none"]

(***************************************************************************)
(* The lattice operations.                                                 *)
(***************************************************************************)
\* Lattice::hexagonal(a): a fresh builder
LatticeHexagonal ==
    \E a \in HexLengths :
        /\ builder' = Some(Lattice_hexagonal(a))
        /\ lattice' = None
        /\ request' = NoRequest
        /\ call' = Called("hexagonal", ZeroCoord)
        /\ translations' = 0
        /\ UNCHANGED beyond_lattice

\* Lattice::triclinic(a, b, gamma): a fresh builder
LatticeTriclinic ==
    \E c \in TriclinicBases :
        /\ builder' = Some(Lattice_triclinic(c[1], c[2], c[3]))
        /\ lattice' = None
        /\ request' = NoRequest
        /\ call' = Called("triclinic", ZeroCoord)
        /\ translations' = 0
        /\ UNCHANGED beyond_lattice

\* builder.from_bins(nx, ny)
FromBins ==
    \E nx \in 0..MaxBins, ny \in 0..MaxBins :
        /\ IsSome(builder)
        /\ lattice = None
        /\ builder' = Some(from_bins(Unwrap(builder), nx, ny))
        /\ request' = [kind |-> "bins", x |-> nx, y |-> ny]
        /\ call' = Called("from_bins", ZeroCoord)
        /\ UNCHANGED <<lattice, translations, beyond_lattice>>

\* builder.from_size(size_x, size_y)
FromSize ==
    \E size_x \in LatticeSizes, size_y \in LatticeSizes :
        /\ IsSome(builder)
        /\ lattice = None
        /\ builder' = Some(from_size(Unwrap(builder), size_x, size_y))
        /\ request' = [kind |-> "size", x |-> size_x, y |-> size_y]
        /\ call' = Called("from_size", ZeroCoord)
        /\ UNCHANGED <<lattice, translations, beyond_lattice>>

\* builder.finalize(): consumes the builder; `builder` keeps it as finalize left it
Finalize ==
    /\ IsSome(builder)
    /\ lattice = None
    /\ LET r == finalize(Unwrap(builder))
       IN  /\ builder' = Some(r.self)
           /\ lattice' = Some(r.lattice)
    /\ call' = Called("finalize", ZeroCoord)
    /\ UNCHANGED <<request, translations, beyond_lattice>>

\* lattice.translate(&t)
Translate ==
    \E t \in TranslateVectors :
        /\ IsSome(lattice)
        /\ translations < MaxTranslations
        /\ lattice' = Some(translate(Unwrap(lattice), t))
        /\ call' = Called("translate", t)
        /\ translations' = translations + 1
        /\ UNCHANGED <<builder, request, beyond_lattice>>

Next ==
    \/ LatticeHexagonal
    \/ LatticeTriclinic
    \/ FromBins
    \/ FromSize
    \/ Finalize
    \/ Translate

Spec == Init /\ [][Next]_vars

(***************************************************************************)
(* Substrate generation.                                                   *)
(***************************************************************************)
\* create_substrate((size_x, size_y), substrate_type)
CreateSubstrate ==
    \E size_x \in SubstrateSizes, size_y \in SubstrateSizes,
       substrate_type \in SubstrateTypes :
        /\ substrate' = create_substrate(size_x, size_y, substrate_type)
        /\ UNCHANGED beyond_substrate

SubstrateNext == CreateSubstrate

SubstrateSpec == Init /\ [][SubstrateNext]_vars

(***************************************************************************)
(* Component entries.                                                      *)
(***************************************************************************)
\* ComponentEntry::from(object), for the one component of a run
ComponentFrom ==
    \E class \in Classes :
        \E geometry \in Geometries(class), coords \in CoordLists :
            /\ component = None
            /\ component' = Some(ComponentEntry_from(
                                [class |-> class, name |-> None, residue |-> None,
                                 geometry |-> geometry, coords |-> coords]))
            /\ comp_call' = ComponentCalled("from", <<>>)
            /\ UNCHANGED beyond_component

\* component.with_pbc()
WithPbc ==
    /\ IsSome(component)
    /\ component' = Some(with_pbc(Unwrap(component)))
    /\ comp_call' = ComponentCalled("with_pbc", get_coords(Unwrap(component)))
    /\ UNCHANGED beyond_component

ComponentNext == ComponentFrom \/ WithPbc

ComponentSpec == Init /\ [][ComponentNext]_vars

(***************************************************************************)
(* The catalog.                                                            *)
(***************************************************************************)
\* DataBase::new()
DataBaseNew ==
    /\ database' = DataBase_new
    /\ db_call' = DataBaseCalled("new", None, "Ok", None)
    /\ UNCHANGED <<disk, writes, beyond_database>>

\* DataBase { path: .., residue_defs: .., component_defs: .. }: the fields are pub
DataBaseLiteral ==
    \E path \in LiteralPaths, residue_defs \in ResidueLists,
       component_defs \in ComponentLists :
        /\ database' = [path |-> path, residue_defs |-> residue_defs,
                        component_defs |-> component_defs]
        /\ db_call' = DataBaseCalled("literal", None, "Ok", None)
        /\ UNCHANGED <<disk, writes, beyond_database>>

\* database.set_path(&candidate)
SetPath ==
    \E candidate \in CandidatePaths :
        LET r == set_path(database, candidate)
        IN  /\ database' = r.self
            /\ db_call' = DataBaseCalled("set_path", Some(candidate), r.result, None)
            /\ UNCHANGED <<disk, writes, beyond_database>>

\* database.to_writer(&mut serialized) and then
\* DataBase::from_reader(serialized.as_slice())
SerializeAndDeserialize ==
    LET r == from_reader(to_writer(database))
    IN  /\ db_call' = DataBaseCalled("round_trip", None, r.result, r.value)
        /\ UNCHANGED <<database, disk, writes, beyond_database>>

\* read_database(from_path); the session goes on with the DataBase read
ReadDatabase ==
    \E from_path \in ReadPaths :
        LET r == read_database(from_path, disk)
        IN  /\ db_call' = DataBaseCalled("read_database", Some(from_path), r.result, r.value)
            /\ database' = IF r.result = "Ok" THEN Unwrap(r.value) ELSE database
            /\ UNCHANGED <<disk, writes, beyond_database>>

\* write_database(&database)
WriteDatabase ==
    \E io \in {"ok", "create fails", "write fails"} :
        LET r == write_database(database, disk, io)
        IN  /\ writes < MaxWrites
            /\ disk' = r.files
            /\ db_call' = DataBaseCalled("write_database", database.path, r.result, None)
            /\ writes' = writes + 1
            /\ UNCHANGED <<database, beyond_database>>

DataBaseNext ==
    \/ DataBaseNew
    \/ DataBaseLiteral
    \/ SetPath
    \/ SerializeAndDeserialize
    \/ ReadDatabase
    \/ WriteDatabase

DataBaseSpec == Init /\ [][DataBaseNext]_vars

(***************************************************************************)
(* user_menu, one action for each way around its loop.                     *)
(***************************************************************************)
InLoop == menu.pc = "loop"

Looped(command, list) ==
    /\ system_defs' = list
    /\ menu' = [menu EXCEPT !.command = command, !.before = system_defs]
    /\ UNCHANGED <<ui_database, beyond_menu>>

Returned(exit, list) ==
    /\ system_defs' = list
    /\ menu' = [menu EXCEPT !.pc = "outside", !.command = exit,
                            !.exit = exit, !.before = system_defs]
    /\ UNCHANGED <<ui_database, beyond_menu>>

\* user_menu(&database, &mut system_defs) up to the loop
EnterMenu ==
    /\ menu.pc = "outside"
    /\ menu' = [pc |-> "loop", backup |-> system_defs, at_entry |-> system_defs,
                before |-> system_defs, command |-> "enter", exit |-> "none"]
    /\ UNCHANGED <<ui_database, system_defs, beyond_menu>>

\* get_input_string("Selection")? fails
SelectionUnreadable ==
    /\ InLoop
    /\ Returned("input error", system_defs)

\* "Not a valid selection."
InvalidSelection ==
    /\ InLoop
    /\ Looped("invalid", system_defs)

DefineSystem ==
    \E selection \in SelectionsTyped, position \in PositionsTyped, size \in SizesTyped,
       radius \in SinglesTyped, height \in SinglesTyped :
        LET def == create_definition(ui_database,
                       [selection |-> selection, position |-> position, size |-> size,
                        radius |-> radius, height |-> height])
        IN  /\ InLoop
            /\ Len(system_defs) < MaxDefs
            /\ IF def.ok THEN Looped("define", Append(system_defs, def.value))
               ELSE Looped("define failed", system_defs)

RemoveSystem ==
    \E tail \in RemoveTails :
        LET r == remove_item(system_defs, tail)
        IN  /\ InLoop
            /\ Looped(IF r.ok THEN "remove" ELSE "remove failed", r.list)

SwapSystems ==
    \E tail \in SwapTails :
        LET r == swap_items(system_defs, tail)
        IN  /\ InLoop
            /\ Looped(IF r.ok THEN "swap" ELSE "swap failed", r.list)

QuitAndSave ==
    /\ InLoop
    /\ Returned("finalize", system_defs)

QuitWithoutSavingChosen ==
    /\ InLoop
    /\ Returned("abort", QuitWithoutSaving(system_defs, menu.backup))

MenuNext ==
    \/ EnterMenu
    \/ SelectionUnreadable
    \/ InvalidSelection
    \/ DefineSystem
    \/ RemoveSystem
    \/ SwapSystems
    \/ QuitAndSave
    \/ QuitWithoutSavingChosen

MenuSpec == Init /\ [][MenuNext]_vars

(***************************************************************************)
(* What the claims speak of, stated without the program's arithmetic.      *)
(***************************************************************************)
\* the smallest multiple of k that is >= n
SmallestMultipleAtLeast(k, n) ==
    CHOOSE m \in n..(n + k) : m % k = 0 /\ \A j \in n..(m - 1) : j % k # 0

\* num/den (den > 0) rounded to the nearest integer, a tie away from zero
NearestInteger(num, den) ==
    LET reach == Abs(num) \div den + 1
    IN  CHOOSE n \in (-reach)..reach :
            \A m \in (-reach)..reach :
                \/ Abs(num - n*den) < Abs(num - m*den)
                \/ Abs(num - n*den) = Abs(num - m*den) /\ Abs(m) <= Abs(n)

\* the bin count from_bins(u64) receives for a rounded quotient
BinsOf(n) == IF n < 0 THEN 0 ELSE n

\* the bin multiple a family demands along each axis
FamilyStep(lattice_type) ==
    IF lattice_type = "Hexagonal" THEN [x |-> 3, y |-> 2] ELSE [x |-> 1, y |-> 1]

JustFinalized == call.op = "finalize" /\ IsSome(lattice) /\ IsSome(builder)
TheCrystal == Unwrap(builder).crystal
TheSpacing == spacing(TheCrystal)
IsHexagonal == TheCrystal.lattice_type = "Hexagonal"
TheCoords == Unwrap(lattice).coords
TheBox == Unwrap(lattice).box_size

\* the grid point of column col and row row
PointAt(col, row) ==
    [x |-> col * TheSpacing.dx + row * TheSpacing.dx_per_row,
     y |-> row * TheSpacing.dy,
     z |-> 0]

(***************************************************************************)
(* C1 - LatticeBuilder::finalize, hexagonal                                *)
(***************************************************************************)
\* C1: a hexagonal lattice finalized from from_bins(nx, ny) has the coordinate
\* list and the box_size of from_bins(nx', ny').finalize(), nx' the smallest
\* multiple of 3 >= nx and ny' the smallest multiple of 2 >= ny; the box is
\* never smaller than the box of the requested counts.
C1_HexagonalBinsRoundedUp ==
    (JustFinalized /\ IsHexagonal /\ request.kind = "bins") =>
        LET nx1 == SmallestMultipleAtLeast(3, request.x)
            ny1 == SmallestMultipleAtLeast(2, request.y)
            expected == finalize(from_bins(LatticeBuilder_new(TheCrystal), nx1, ny1)).lattice
        IN  /\ TheCoords = expected.coords
            /\ TheBox = expected.box_size
            /\ TheBox.x = nx1 * TheSpacing.dx
            /\ TheBox.y = ny1 * TheSpacing.dy
            /\ TheBox.x >= request.x * TheSpacing.dx
            /\ TheBox.y >= request.y * TheSpacing.dy

\* the test's case: from_bins(4, 1) on hexagonal(1.0) gives the 6-by-2 lattice
C1_Witness ==
    /\ JustFinalized /\ IsHexagonal
    /\ TheCrystal.a = 10000
    /\ request = [kind |-> "bins", x |-> 4, y |-> 1]
    /\ Len(TheCoords) = 8
    /\ TheBox = Coord_new(60000, 17320, 0)

(***************************************************************************)
(* C2 - LatticeBuilder::hexagonal, the vacancy pattern                     *)
(***************************************************************************)
KeptCells(nx, ny) ==
    {c \in [col : 0..(nx - 1), row : 0..(ny - 1)] : (c.col + c.row + 1) % 3 # 0}

\* the place of a kept cell in row-major order, counted from 1
RowMajorRank(c, cells) ==
    1 + Cardinality({d \in cells : d.row < c.row \/ (d.row = c.row /\ d.col < c.col)})

\* C2: with the adjusted counts (nx', ny'), a finalized hexagonal lattice holds,
\* in row-major order, exactly the grid points (col, row) with
\* (col+row+1) mod 3 # 0; every row loses nx'/3 points and the point count is
\* 2/3 of nx'*ny'.
C2_HexagonalVacancies ==
    (JustFinalized /\ IsHexagonal) =>
        LET nx1  == Unwrap(builder).nx
            ny1  == Unwrap(builder).ny
            kept == KeptCells(nx1, ny1)
        IN  /\ nx1 % 3 = 0 /\ ny1 % 2 = 0
            /\ Len(TheCoords) = Cardinality(kept)
            /\ \A c \in kept : TheCoords[RowMajorRank(c, kept)] = PointAt(c.col, c.row)
            /\ \A row \in 0..(ny1 - 1) :
                   Cardinality({col \in 0..(nx1 - 1) : (col + row + 1) % 3 = 0}) = nx1 \div 3
            /\ 3 * Len(TheCoords) = 2 * nx1 * ny1

\* the test's 6-by-2 lattice: 8 of 12 points, the second row starting at dx_per_row
C2_Witness ==
    /\ JustFinalized /\ IsHexagonal
    /\ TheCrystal.a = 10000
    /\ Unwrap(builder).nx = 6 /\ Unwrap(builder).ny = 2
    /\ Len(TheCoords) = 8
    /\ TheCoords[3] = Coord_new(30000, 0, 0)
    /\ TheCoords[6] = Coord_new(15000, 8660, 0)

(***************************************************************************)
(* C3 - LatticeBuilder::generic                                            *)
(***************************************************************************)
\* C3: a triclinic lattice finalized from from_bins(nx, ny) keeps nx and ny and
\* holds nx*ny points, row outer and column inner: list index row*nx + col
\* (0-based) is (col*dx + row*dx_per_row, row*dy, 0); box_size is (nx*dx, ny*dy, 0).
C3_GenericRowMajor ==
    (JustFinalized /\ ~IsHexagonal /\ request.kind = "bins") =>
        LET nx == request.x
            ny == request.y
        IN  /\ Unwrap(builder).nx = nx /\ Unwrap(builder).ny = ny
            /\ Len(TheCoords) = nx * ny
            /\ \A row \in 0..(ny - 1), col \in 0..(nx - 1) :
                   TheCoords[row * nx + col + 1] = PointAt(col, row)
            /\ TheBox = [x |-> nx * TheSpacing.dx, y |-> ny * TheSpacing.dy, z |-> 0]

\* the test's case: triclinic(1.0, 1.0, 60 degrees).from_bins(3, 2)
C3_Witness ==
    /\ JustFinalized /\ ~IsHexagonal
    /\ TheCrystal = Crystal_triclinic(10000, 10000, 60)
    /\ request = [kind |-> "bins", x |-> 3, y |-> 2]
    /\ Len(TheCoords) = 6
    /\ TheCoords[5] = Coord_new(15000, 8660, 0)
    /\ TheBox = Coord_new(30000, 17320, 0)

(***************************************************************************)
(* C4 - LatticeBuilder::from_size                                          *)
(***************************************************************************)
\* C4: for either basis and every requested size (sx, sy),
\* from_size(sx, sy).finalize() has the coordinate list and the box_size of
\* from_bins(round(sx/dx), round(sy/dy)).finalize(), round being
\* round-half-away-from-zero (a negative count reaching from_bins as 0).
C4_FromSizeIsFromBinsOfRounded ==
    (JustFinalized /\ request.kind = "size") =>
        LET nx == BinsOf(NearestInteger(request.x, TheSpacing.dx))
            ny == BinsOf(NearestInteger(request.y, TheSpacing.dy))
            expected == finalize(from_bins(LatticeBuilder_new(TheCrystal), nx, ny)).lattice
        IN  /\ TheCoords = expected.coords
            /\ TheBox = expected.box_size

\* the tests' case: from_size(2.1, 0.9) on triclinic(1.0, 0.5, 90 degrees) is 2-by-2
C4_Witness ==
    /\ JustFinalized
    /\ TheCrystal = Crystal_triclinic(10000, 5000, 90)
    /\ request = [kind |-> "size", x |-> 21000, y |-> 9000]
    /\ Len(TheCoords) = 4
    /\ TheBox = Coord_new(20000, 10000, 0)

(***************************************************************************)
(* C5 - the box size against the requested size                            *)
(***************************************************************************)
\* the bin counts a family can tile with, up to a count past every candidate
TileableBins(step, size, d) ==
    {k \in 0..(Abs(size) \div d + 2 * step + 1) : k % step = 0}

IsNearestTileable(box, size, d, step) ==
    /\ \E k \in TileableBins(step, size, d) : box = k * d
    /\ \A k \in TileableBins(step, size, d) : Abs(box - size) <= Abs(k * d - size)

C6_TranslateShiftsEveryPoint ==
    [][call'.op = "translate" =>
        LET before == Unwrap(lattice)
            after  == Unwrap(lattice')
            t      == call'.t
        IN  /\ Len(after.coords) = Len(before.coords)
            /\ \A i \in 1..Len(before.coords) :
                   /\ after.coords[i].x = before.coords[i].x + t.x
                   /\ after.coords[i].y = before.coords[i].y + t.y
                   /\ after.coords[i].z = before.coords[i].z + t.z
            /\ after.box_size = before.box_size]_vars

\* a lattice of several points translated a second time, off the z = 0 plane
C6_Witness ==
    /\ call.op = "translate"
    /\ call.t = Coord_new(-5000, 5000, 10000)
    /\ translations = 2
    /\ Len(TheCoords) >= 2
    /\ TheCoords[1].z = 10000 + 1420
    /\ TheBox.z = 0

(***************************************************************************)
(* C7 - gen_atom_list                                                      *)
(***************************************************************************)
SubstrateBuilt == substrate.status = "Ok" /\ IsSome(substrate.system)
TheAtoms == Unwrap(substrate.system).atoms
TheTemplate == Unwrap(substrate.residue_base)
ThePoints == Unwrap(substrate.lattice).coords

\* C7: over n lattice points and a template of m atoms the atom list holds n*m
\* atoms, lattice point outer and template atom inner: the atom at 0-based index
\* i*m + j has residue_number i, atom_number i*m + j (its index in the list),
\* the template's code as residue_name, the j-th template atom's code as
\* atom_name and the i-th lattice point plus the j-th template offset as position.
C7_AtomsNumberedInOrder ==
    SubstrateBuilt =>
        LET n == Len(ThePoints)
            m == Len(TheTemplate.atoms)
        IN  /\ Len(TheAtoms) = n * m
            /\ \A k \in 1..Len(TheAtoms) : TheAtoms[k].atom_number = k - 1
            /\ \A i \in 0..(n - 1), j \in 0..(m - 1) :
                   LET atom == TheAtoms[i * m + j + 1]
                   IN  /\ atom.residue_number = i
                       /\ atom.atom_number = i * m + j
                       /\ atom.residue_name = TheTemplate.code
                       /\ atom.atom_name = TheTemplate.atoms[j + 1].code
                       /\ atom.position.x = ThePoints[i + 1].x + TheTemplate.atoms[j + 1].position.x
                       /\ atom.position.y = ThePoints[i + 1].y + TheTemplate.atoms[j + 1].position.y
                       /\ atom.position.z = ThePoints[i + 1].z + TheTemplate.atoms[j + 1].position.z

\* silica over several lattice points: three atoms per point, the fifth atom
\* (index 4) being the SI of the second point
C7_Witness ==
    /\ SubstrateBuilt
    /\ substrate.substrate_type = "Silica"
    /\ Len(ThePoints) >= 2
    /\ Len(TheAtoms) = 3 * Len(ThePoints)
    /\ TheAtoms[5].atom_name = "SI"
    /\ TheAtoms[5].residue_number = 1
    /\ TheAtoms[5].atom_number = 4

(***************************************************************************)
(* C8 - create_substrate, the size check                                   *)
(***************************************************************************)
\* C8: create_substrate returns the size error and builds no system whenever
\* size_x <= 0 or size_y <= 0, for every material, before any lattice is
\* generated.
C8_NonPositiveSizeIsError ==
    (substrate.status # "none" /\ (substrate.size_x <= 0 \/ substrate.size_y <= 0)) =>
        /\ substrate.status = "Err"
        /\ substrate.error = "input sizes of the system have to be positive"
        /\ substrate.system = None
        /\ substrate.lattice = None
        /\ substrate.residue_base = None

\* a zero width beside a positive height, for silica
C8_Witness ==
    /\ substrate.status = "Err"
    /\ substrate.substrate_type = "Silica"
    /\ substrate.size_x = 0
    /\ substrate.size_y = 10000
    /\ substrate.system = None

(***************************************************************************)
(* C9, C10 - the graphene layer of size 1.0 x 1.0                          *)
(***************************************************************************)
GrapheneOneByOne ==
    /\ SubstrateBuilt
    /\ substrate.substrate_type = "Graphene"
    /\ substrate.size_x = 10000
    /\ substrate.size_y = 10000

\* C9: a graphene substrate of requested size 1.0 x 1.0 (bond length 0.142)
\* holds exactly 32 atoms.
C9_GrapheneHas32Atoms ==
    GrapheneOneByOne => Len(TheAtoms) = 32

\* C10: the first atom of that substrate is residue "GRPH" number 0, atom "C"
\* number 0, at (bond_length/2, bond_length/2, bond_length/2) = (0.071, 0.071, 0.071).
C10_GrapheneFirstAtom ==
    GrapheneOneByOne =>
        TheAtoms[1] = [residue_name |-> "GRPH", residue_number |-> 0,
                       atom_name |-> "C", atom_number |-> 0,
                       position |-> [x |-> 710, y |-> 710, z |-> 710]]

JustFolded == comp_call.op = "with_pbc" /\ IsSome(component)
FoldedCoords == Unwrap(component).object.coords

\* the box a component's geometric fields span, read off the fields
BoxOfFields(object) ==
    IF object.class = "volume::Cuboid"
    THEN [x |-> object.geometry[1], y |-> object.geometry[2], z |-> object.geometry[3]]
    ELSE IF object.class = "surface::Sheet"
    THEN [x |-> object.geometry[1], y |-> object.geometry[2], z |-> 0]
    ELSE [x |-> 2 * object.geometry[1], y |-> 2 * object.geometry[1],
          z |-> object.geometry[2]]

\* v is orig folded into [0, b), or orig itself when b is 0
IsFoldOf(v, orig, b) ==
    IF b > 0
    THEN /\ 0 <= v /\ v < b
         /\ \E k \in (-(Abs(orig) \div b) - 1)..((Abs(orig) \div b) + 1) : v = orig + k * b
    ELSE v = orig

\* C12: after with_pbc, for every variant and every coordinate, each axis whose
\* box_size component is > 0 holds a value in [0, box_size) congruent to the
\* original modulo box_size, and each axis whose box_size component is 0 keeps
\* its original value; the list keeps its length and order.
C12_FoldedIntoBox ==
    JustFolded =>
        LET box == BoxOfFields(Unwrap(component).object)
        IN  /\ Len(FoldedCoords) = Len(comp_call.before)
            /\ \A i \in 1..Len(comp_call.before) :
                   /\ IsFoldOf(FoldedCoords[i].x, comp_call.before[i].x, box.x)
                   /\ IsFoldOf(FoldedCoords[i].y, comp_call.before[i].y, box.y)
                   /\ IsFoldOf(FoldedCoords[i].z, comp_call.before[i].z, box.z)

\* the test's sheet with box (2.0, 1.0, .): (2.5, 0, 0) and (0, 1.5, 0) become
\* (0.5, 0, 0) and (0, 0.5, 0)
C12_Witness ==
    /\ JustFolded
    /\ Unwrap(component).entry = "SurfaceSheet"
    /\ Unwrap(component).object.geometry = <<20000, 10000>>
    /\ comp_call.before = <<Coord_new(25000, 0, 0), Coord_new(0, 15000, 0)>>
    /\ FoldedCoords = <<Coord_new(5000, 0, 0), Coord_new(0, 5000, 0)>>

\* C13: with_pbc is idempotent: folding a folded component returns the same
\* coordinate list (length, order and values), and no fold changes the
\* component's box_size.
C13_FoldIsIdempotent ==
    [][comp_call'.op = "with_pbc" =>
        /\ BoxOfFields(Unwrap(component').object) = BoxOfFields(Unwrap(component).object)
        /\ comp_call.op = "with_pbc" =>
               Unwrap(component').object.coords = Unwrap(component).object.coords]_vars

\* a second fold of a component whose first fold moved both of its points
C13_Witness ==
    /\ JustFolded
    /\ Len(FoldedCoords) = 2
    /\ comp_call.before = FoldedCoords
    /\ FoldedCoords = <<Coord_new(15000, 0, 2000), Coord_new(5000, 5000, 0)>>

(***************************************************************************)
(* The catalog's claims.                                                   *)
(***************************************************************************)
\* what "has a file stem" and "with the extension json" mean for the
\* candidates, written out: "", ".." have no stem
StemlessCandidates == {PathBuf_from("", <<>>), PathBuf_from("", <<"", "", "">>)}

WithJson(candidate) ==
    CASE candidate = PathBuf_from("", <<"test">>) -> PathBuf_from("", <<"test", "json">>)
      [] candidate = PathBuf_from("/a/", <<"file", "json">>) -> PathBuf_from("/a/", <<"file", "json">>)
      [] candidate = PathBuf_from("", <<"file", "txt">>) -> PathBuf_from("", <<"file", "json">>)
      [] candidate = PathBuf_from("", <<"", "hidden">>) -> PathBuf_from("", <<"", "hidden", "json">>)
      [] OTHER -> candidate

EndsInJson(path) ==
    /\ Len(path.name) >= 2
    /\ path.name[Len(path.name)] = "json"
    /\ \E i \in 1..(Len(path.name) - 1) : path.name[i] # ""

JustSetPath == db_call.op = "set_path"

\* C14: set_path returns Ok exactly when the candidate has a file stem, and
\* then the stored path is the candidate with the extension "json" in place
\* of its own, or added when it had none
C14_SetPathStoresJson ==
    JustSetPath =>
        LET candidate == Unwrap(db_call.arg)
        IN  /\ db_call.result = "Ok" <=> candidate \notin StemlessCandidates
            /\ db_call.result = "Ok" =>
                   /\ database.path = Some(WithJson(candidate))
                   /\ EndsInJson(Unwrap(database.path))

\* "file.txt" has been stored as "file.json"
C14_Witness ==
    /\ JustSetPath
    /\ db_call.result = "Ok"
    /\ db_call.arg = Some(PathBuf_from("", <<"file", "txt">>))
    /\ database.path = Some(PathBuf_from("", <<"file", "json">>))

\* C15: a set_path that fails returns BadPath and leaves the database as it
\* was: the path, residue_defs and component_defs
C15_FailedSetPathChangesNothing ==
    [][(db_call'.op = "set_path" /\ db_call'.result # "Ok") =>
          /\ db_call'.result = "BadPath"
          /\ database'.path = database.path
          /\ database'.residue_defs = database.residue_defs
          /\ database'.component_defs = database.component_defs]_vars

\* set_path("") has failed on a database whose path an earlier set_path stored
C15_Witness ==
    /\ JustSetPath
    /\ db_call.result = "BadPath"
    /\ db_call.arg = Some(PathBuf_from("", <<>>))
    /\ database.path = Some(PathBuf_from("", <<"test", "json">>))
    /\ database.component_defs # <<>>

JustRead == db_call.op = "read_database"

\* C17: a load that succeeds gives a database whose path is the location
\* read, as given; a load of a file that is missing or does not parse gives
\* an error and no database
C17_LoadedPathIsTheLocation ==
    JustRead =>
        LET from_path == Unwrap(db_call.arg)
            readable  == from_path \in DOMAIN disk /\ disk[from_path].valid
        IN  /\ db_call.result = "Ok" <=> readable
            /\ readable =>
                   /\ db_call.value # None
                   /\ Unwrap(db_call.value).path = Some(from_path)
                   /\ database = Unwrap(db_call.value)
            /\ ~readable => db_call.value = None

\* a catalog saved at "This/will/be/removed" has been loaded from there
C17_Witness ==
    /\ JustRead
    /\ db_call.result = "Ok"
    /\ db_call.arg = Some(PathBuf_from("This/will/be/", <<"removed">>))
    /\ database.path = Some(PathBuf_from("This/will/be/", <<"removed">>))
    /\ database.component_defs # <<>>

\* C18: write_database leaves the database as it is; without a path it
\* fails and the files stay as they are; with a path no file but the one at
\* the path changes, and on Ok that file holds the database's lists
C18_SaveNeedsAPath ==
    [][writes' # writes =>
          /\ database' = database
          /\ db_call'.op = "write_database"
          /\ database.path = None => (db_call'.result # "Ok" /\ disk' = disk)
          /\ database.path # None =>
                 LET path == Unwrap(database.path)
                 IN  /\ \A q \in DOMAIN disk' \ {path} :
                            q \in DOMAIN disk /\ disk'[q] = disk[q]
                     /\ DOMAIN disk \subseteq DOMAIN disk'
                     /\ db_call'.result = "Ok" =>
                            /\ path \in DOMAIN disk'
                            /\ disk'[path].valid
                            /\ disk'[path].residue_definitions = Some(database.residue_defs)
                            /\ Len(Unwrap(disk'[path].component_definitions))
                                   = Len(database.component_defs)]_vars

\* a database with components and no path has been refused
C18_Witness ==
    /\ db_call.op = "write_database"
    /\ db_call.arg = None
    /\ db_call.result = "IoError"
    /\ database.path = None
    /\ database.component_defs # <<>>
    /\ disk = InitialDisk

(***************************************************************************)
(* C19 - the hexagonal lattice under its periodic box                      *)
(***************************************************************************)
\* the honeycomb pattern over the whole grid, outside the box as well
KeptByPattern(col, row) == (col + row + 1) % 3 # 0

\* the lattice holds the grid point of (col, row)
LatticePoints == {TheCoords[k] : k \in 1..Len(TheCoords)}
InLattice(col, row) == PointAt(col, row) \in LatticePoints

Shifted(p, x, y) == [x |-> p.x + x, y |-> p.y + y, z |-> p.z]

\* C19: for a finalized hexagonal lattice with the adjusted counts (nx', ny'),
\* the image of the cell (col, row) one box along x is the cell (col + nx', row)
\* and its image one box along y is the cell (col + ny'/2, row + ny'), that is
\* row + ny' lies over column col - ny'/2 of the original rows; both ways and
\* in both directions the image cell is kept by the pattern exactly when the
\* lattice holds the point of (col, row).
C19_PatternTilesUnderTheBox ==
    (JustFinalized /\ IsHexagonal) =>
        LET nx1 == Unwrap(builder).nx
            ny1 == Unwrap(builder).ny
            half == ny1 \div 2
            points == LatticePoints
        IN  \A col \in 0..(nx1 - 1), row \in 0..(ny1 - 1) :
                LET held == PointAt(col, row) \in points
                IN  \A i \in {-1, 1} :
                        /\ PointAt(col + i * nx1, row)
                               = Shifted(PointAt(col, row), i * TheBox.x, 0)
                        /\ KeptByPattern(col + i * nx1, row) <=> held
                        /\ PointAt(col + i * half, row + i * ny1)
                               = Shifted(PointAt(col, row), 0, i * TheBox.y)
                        /\ KeptByPattern(col + i * half, row + i * ny1) <=> held

\* the test's 6-by-2 lattice: the cell (1, 2) lies one box above the kept
\* point (0, 0), the cell (3, 2) one box above the vacancy (2, 0)
C19_Witness ==
    /\ JustFinalized /\ IsHexagonal
    /\ TheCrystal.a = 10000
    /\ Unwrap(builder).nx = 6 /\ Unwrap(builder).ny = 2
    /\ InLattice(0, 0) /\ KeptByPattern(1, 2)
    /\ PointAt(1, 2) = Shifted(TheCoords[1], 0, TheBox.y)
    /\ ~InLattice(2, 0) /\ ~KeptByPattern(3, 2)

(***************************************************************************)
(* C20 - user_menu                                                         *)
(***************************************************************************)
\* C20: user_menu returns only by "finalize", by "abort" or by an input
\* error; after "abort" the list is what it was when the menu was entered,
\* after "finalize" it is the list as edited; the database is never changed.
C20_AbortRestoresFinalizeKeeps ==
    [][/\ ui_database' = ui_database
       /\ (menu.pc = "loop" /\ menu'.pc = "outside") =>
              /\ menu'.exit \in {"finalize", "abort", "input error"}
              /\ menu'.exit = "abort" => system_defs' = menu.at_entry
              /\ menu'.exit = "finalize" => system_defs' = system_defs]_vars

\* the menu was entered with a list, the list was edited, and "abort" has
\* put it back
C20_Witness ==
    /\ menu.pc = "outside"
    /\ menu.exit = "abort"
    /\ menu.at_entry # <<>>
    /\ menu.before # menu.at_entry
    /\ Len(menu.before) = MaxDefs
    /\ system_defs = menu.at_entry

(***************************************************************************)
(* C21 - create_substrate, sizes below half a bin                          *)
(***************************************************************************)
\* the basis spacing of the material asked for
MaterialSpacing ==
    IF substrate.substrate_type = "Graphene"
    THEN spacing(Crystal_hexagonal(GrapheneBondLength))
    ELSE spacing(Crystal_triclinic(SilicaBondLength, SilicaBondLength, SilicaGamma))

\* size/spacing < 0.5
BelowHalfABin(size, step) == 2 * size < step

\* C21: for strictly positive sizes create_substrate returns Ok with a
\* system, never the size error; when a size is below half the spacing of
\* its axis the atom list is empty and the box dimension of that axis is 0,
\* and when neither is the system has atoms and a positive box.
C21_TinySizesGiveEmptySystem ==
    (substrate.status # "none" /\ substrate.size_x > 0 /\ substrate.size_y > 0) =>
        /\ substrate.status = "Ok"
        /\ substrate.error = ""
        /\ IsSome(substrate.system)
        /\ LET system == Unwrap(substrate.system)
               tiny_x == BelowHalfABin(substrate.size_x, MaterialSpacing.dx)
               tiny_y == BelowHalfABin(substrate.size_y, MaterialSpacing.dy)
           IN  /\ tiny_x => (system.atoms = <<>> /\ system.dimensions.x = 0)
               /\ tiny_y => (system.atoms = <<>> /\ system.dimensions.y = 0)
               /\ (~tiny_x /\ ~tiny_y) =>
                      /\ system.atoms # <<>>
                      /\ system.dimensions.x > 0
                      /\ system.dimensions.y > 0

\* graphene of 0.05 x 1.0: Ok, no atoms, no width, and a height all the same
C21_Witness ==
    /\ substrate.status = "Ok"
    /\ substrate.substrate_type = "Graphene"
    /\ substrate.size_x = 500
    /\ substrate.size_y = 10000
    /\ Unwrap(substrate.system).atoms = <<>>
    /\ Unwrap(substrate.system).dimensions.x = 0
    /\ Unwrap(substrate.system).dimensions.y > 0

====
